---- MODULE Spec2Model ----
(***************************************************************************)
(* Package and type-token resolution of pkg/pulumiyaml/packages.go.        *)
(*                                                                         *)
(* Strings are sequences of one-character strings, so that Go's            *)
(* strings.Split, fmt.Sprintf, strcase.ToLowerCamel and the byte-wise "<"  *)
(* on strings are computed and not assumed.  A type token is kept as the   *)
(* sequence of its ":"-separated segments, which is exactly what           *)
(* strings.Split(typeName, ":") returns; a segment never holds a ":".      *)
(***************************************************************************)
EXTENDS Integers, Sequences, FiniteSets, TLC

VARIABLES
    pkg,          \* the loaded package behind the facade (resourcePackage)
    op,           \* the operation that ran last
    arg,          \* its type token
    ret,          \* its result
    comp,         \* the result of IsComponent on the token returned last
    descriptors,  \* the caller's descriptor map (map[tokens.Package]*PackageDescriptor)
    descriptors0, \* the descriptor map as the caller built it
    argVersion,   \* the version override of the last top-level call
    loaded,       \* the descriptors handed to loader.LoadPackage by the last call
    calls,        \* top-level calls made so far
    packageMap,   \* GetReferencedPackages: packageMap
    sdiags,       \* GetReferencedPackages: the runner's diagnostics
    pc,           \* GetReferencedPackages: position of the scan
    tmpl,         \* the part of the template the scan has consumed
    packages,     \* GetReferencedPackages: the returned list
    packages2     \* the list a second scan of the same template returns

vars == <<pkg, op, arg, ret, comp, descriptors, descriptors0, argVersion, loaded,
          calls, packageMap, sdiags, pc, tmpl, packages, packages2>>

facadeVars == <<pkg, op, arg, ret, comp>>
topVars == <<descriptors, descriptors0, argVersion, loaded, calls>>
scanVars == <<packageMap, sdiags, pc, tmpl, packages, packages2>>

----------------------------------------------------------------------------
(* Strings *)

\* The characters in use, in byte order.
Alphabet ==
    <<"-", ".", "/", "0", "1", "2", "3", "4", "5", "6", "7", "8", "9",
      "A", "B", "C", "D", "E", "F", "G", "H", "I", "J", "K", "L", "M",
      "N", "O", "P", "Q", "R", "S", "T", "U", "V", "W", "X", "Y", "Z", "_",
      "a", "b", "c", "d", "e", "f", "g", "h", "i", "j", "k", "l", "m",
      "n", "o", "p", "q", "r", "s", "t", "u", "v", "w", "x", "y", "z">>

OrdOf ==
    [c \in { Alphabet[i] : i \in 1..Len(Alphabet) } |->
        CHOOSE i \in 1..Len(Alphabet) : Alphabet[i] = c]
Ord(c) == OrdOf[c]

IsCap(c) == Ord(c) >= Ord("A") /\ Ord(c) <= Ord("Z")
IsLow(c) == Ord(c) >= Ord("a") /\ Ord(c) <= Ord("z")
IsNum(c) == Ord(c) >= Ord("0") /\ Ord(c) <= Ord("9")
ToLower(c) == IF IsCap(c) THEN Alphabet[Ord(c) - Ord("A") + Ord("a")] ELSE c
ToUpper(c) == IF IsLow(c) THEN Alphabet[Ord(c) - Ord("a") + Ord("A")] ELSE c

\* Go's s < t on strings: byte-wise lexicographic.
RECURSIVE StrLess(_, _)
StrLess(s, t) ==
    IF t = <<>> THEN FALSE
    ELSE IF s = <<>> THEN TRUE
    ELSE IF s[1] # t[1] THEN Ord(s[1]) < Ord(t[1])
    ELSE StrLess(Tail(s), Tail(t))

\* strcase.ToLowerCamel(s): toCamelInitCase(s, false) with no acronym configured.
RECURSIVE CamelFrom(_, _, _, _, _)
CamelFrom(s, i, capNext, prevIsCap, n) ==
    IF i > Len(s) THEN n
    ELSE LET c == s[i]
             v == IF capNext THEN ToUpper(c)
                  ELSE IF i = 1 THEN ToLower(c)
                  ELSE IF prevIsCap /\ IsCap(c) THEN ToLower(c)
                  ELSE c
         IN IF IsCap(c) \/ IsLow(c)
               THEN CamelFrom(s, i + 1, FALSE, IsCap(c), Append(n, v))
            ELSE IF IsNum(c)
               THEN CamelFrom(s, i + 1, TRUE, IsCap(c), Append(n, v))
            ELSE CamelFrom(s, i + 1, c \in {"_", "-", "."}, IsCap(c), n)

ToLowerCamel(s) == CamelFrom(s, 1, FALSE, FALSE, <<>>)

sAws == <<"a", "w", "s">>
sGcp == <<"g", "c", "p">>
sS3 == <<"s", "3">>
sEc2 == <<"e", "c", "2">>
sIndex == <<"i", "n", "d", "e", "x">>
sBucket == <<"B", "u", "c", "k", "e", "t">>
sInstance == <<"I", "n", "s", "t", "a", "n", "c", "e">>
sNetAcl == <<"N", "e", "t", "_", "a", "c", "l">>
sDB == <<"D", "B">>
sGetAmi == <<"g", "e", "t", "A", "m", "i">>
sPulumi == <<"p", "u", "l", "u", "m", "i">>
sProviders == <<"p", "r", "o", "v", "i", "d", "e", "r", "s">>
sDocker == <<"d", "o", "c", "k", "e", "r">>
sImageMod == <<"i", "m", "a", "g", "e">>
sImage == <<"I", "m", "a", "g", "e">>
sKubernetes == <<"k", "u", "b", "e", "r", "n", "e", "t", "e", "s">>
sKustomize == <<"k", "u", "s", "t", "o", "m", "i", "z", "e">>
sDirectory == <<"D", "i", "r", "e", "c", "t", "o", "r", "y">>
sYaml == <<"y", "a", "m", "l">>
sConfigFile == <<"C", "o", "n", "f", "i", "g", "F", "i", "l", "e">>
sConfigGroup == <<"C", "o", "n", "f", "i", "g", "G", "r", "o", "u", "p">>
sHelmV2 == <<"h", "e", "l", "m", ".", "s", "h", "/", "v", "2">>
sHelmV3 == <<"h", "e", "l", "m", ".", "s", "h", "/", "v", "3">>
sChart == <<"C", "h", "a", "r", "t">>

\* fmt.Sprintf("%s/%s", module, repeatedSection): the middle segment of the legacy form.
Slash(m, r) == m \o <<"/">> \o r

----------------------------------------------------------------------------
(* Results *)

NoErr == "nil"
ErrInvalid == "invalid type token"
ErrLookup == "table error"
ErrNoResource == "unable to find resource type"
ErrNoFunction == "unable to find function"

NoToken == <<>>

Found(tk) == [token |-> tk, found |-> TRUE, err |-> NoErr]
Missing == [token |-> NoToken, found |-> FALSE, err |-> NoErr]
Failed(e) == [token |-> NoToken, found |-> FALSE, err |-> e]

----------------------------------------------------------------------------
(* The package facade: resourcePackage over a schema.PackageReference *)

\* A table of the package reference (Resources() or Functions()): the entries
\* by key, and the keys whose Get fails.
Table(entries, errs) == [entries |-> entries, errs |-> errs]

\* The callback handed to resolveToken: table.Get(tk), giving the entry's Token.
ResolveIn(table, tk) ==
    IF tk \in DOMAIN table.entries THEN Found(table.entries[tk].Token)
    ELSE IF tk \in table.errs THEN Failed(ErrLookup)
    ELSE Missing

Resources(p) == Table(p.resources, p.resErrs)
Functions(p) == Table(p.functions, p.fnErrs)

\* fmt.Sprintf("%s:index:%s", typeParts[0], typeParts[1])
indexForm(typeParts) == <<typeParts[1], sIndex, typeParts[2]>>

\* fmt.Sprintf("%s:%s/%s:%s", typeParts[0], typeParts[1], repeatedSection, typeParts[2])
legacyFormNoCamel(typeParts) ==
    <<typeParts[1], Slash(typeParts[2], typeParts[3]), typeParts[3]>>
legacyForm(typeParts) ==
    LET repeatedSection == ToLowerCamel(typeParts[3])
    IN <<typeParts[1], Slash(typeParts[2], repeatedSection), typeParts[3]>>

resolveToken(typeName, table) ==
    LET typeParts == typeName
    IN  IF Len(typeParts) < 2 \/ Len(typeParts) > 3 THEN Failed(ErrInvalid)
        ELSE LET r1 == ResolveIn(table, typeName)
             IN  IF r1.found THEN Found(r1.token)
                 ELSE IF r1.err # NoErr THEN Failed(r1.err)
                 ELSE LET two == Len(typeParts) = 2
                          r2 == IF two THEN ResolveIn(table, indexForm(typeParts))
                                ELSE Missing
                          typeParts3 == IF two
                                           THEN <<typeParts[1], sIndex, typeParts[2]>>
                                        ELSE typeParts
                      IN  IF two /\ r2.found THEN Found(r2.token)
                          ELSE IF two /\ r2.err # NoErr THEN Failed(r2.err)
                          ELSE IF Len(typeParts3) = 3
                             THEN LET r3 == ResolveIn(table, legacyForm(typeParts3))
                                  IN  IF r3.found THEN Found(r3.token)
                                      ELSE IF r3.err # NoErr THEN Failed(r3.err)
                                      ELSE Missing
                          ELSE Missing

resolveProvider(p, typeName) ==
    LET typeParts == typeName
    IN  IF /\ Len(typeParts) = 3
           /\ typeParts[1] = sPulumi
           /\ typeParts[2] = sProviders
           /\ typeParts[3] = p.name
           THEN Found(typeName)
        ELSE Missing

resourcePackage_ResolveResourceInFunctions(p, typeName) ==
    LET r == resolveToken(typeName, Functions(p))
    IN  IF resolveProvider(p, typeName).found THEN Found(typeName)
        ELSE IF r.err # NoErr THEN Failed(r.err)
        ELSE IF ~r.found THEN Failed(ErrNoResource)
        ELSE Found(r.token)
resourcePackage_ResolveResource(p, typeName) ==
    LET prov == resolveProvider(p, typeName)
        r == resolveToken(typeName, Resources(p))
    IN  IF prov.found THEN Found(prov.token)
        ELSE IF r.err # NoErr THEN Failed(r.err)
        ELSE IF ~r.found THEN Failed(ErrNoResource)
        ELSE Found(r.token)

resourcePackage_ResolveFunction(p, typeName) ==
    LET typeParts == typeName
        r == resolveToken(typeName, Functions(p))
    IN  IF Len(typeParts) < 2 \/ Len(typeParts) > 3 THEN Failed(ErrInvalid)
        ELSE IF r.err # NoErr THEN Failed(r.err)
        ELSE IF ~r.found THEN Failed(ErrNoFunction)
        ELSE Found(r.token)

resourcePackage_IsComponent(p, typeName) ==
    IF typeName \in DOMAIN p.resources
       THEN [value |-> p.resources[typeName].IsComponent, err |-> NoErr]
    ELSE IF typeName \in p.resErrs THEN [value |-> FALSE, err |-> ErrLookup]
    ELSE [value |-> FALSE, err |-> ErrNoResource]

----------------------------------------------------------------------------
(* The facade called on tokens: one loaded package, any of its operations *)

MaxTable == 2

Legacy(tk) == <<tk[1], Slash(tk[2], ToLowerCamel(tk[3])), tk[3]>>

ThreeSegment ==
    { <<sAws, sIndex, sBucket>>, <<sAws, sS3, sBucket>>, <<sAws, sS3, sNetAcl>>,
      <<sAws, sS3, sDB>>, <<sPulumi, sProviders, sAws>> }

\* The keys a resource table is drawn from: flat, three-segment and legacy forms.
ResourceKeys ==
    {<<sAws, sBucket>>} \cup ThreeSegment \cup { Legacy(tk) : tk \in ThreeSegment }

FunctionKeys ==
    { <<sAws, sGetAmi>>, <<sAws, sIndex, sGetAmi>>, Legacy(<<sAws, sIndex, sGetAmi>>) }

\* The keys whose lookup may fail.
FailingKeys == { <<sAws, sBucket>>, <<sAws, sIndex, sBucket>>, <<sAws, sS3, sBucket>> }

UserTokens ==
    ResourceKeys \cup FunctionKeys
        \cup { <<sAws>>, <<sAws, sS3, sBucket, sBucket>>, <<sPulumi, sProviders, sGcp>> }

AtMost(S, n) == { x \in SUBSET S : Cardinality(x) <= n }

\* Entries are keyed by their own token (the table is keyed by canonical token).
EntriesOf(keys) ==
    [k \in keys |-> [Token |-> k, IsComponent |-> (Len(k) = 2)]]

LoadedPackages ==
    { [name |-> sAws, version |-> <<>>,
       resources |-> EntriesOf(r), resErrs |-> re,
       functions |-> EntriesOf(f), fnErrs |-> {}] :
         r \in AtMost(ResourceKeys, MaxTable), re \in AtMost(FailingKeys, 1),
         f \in AtMost(FunctionKeys, 1) }

NoPackage == [name |-> <<>>, version |-> <<>>, resources |-> <<>>, resErrs |-> {},
              functions |-> <<>>, fnErrs |-> {}]
NoComp == [value |-> FALSE, err |-> NoErr]

TopIdle ==
    /\ descriptors = <<>> /\ descriptors0 = <<>> /\ argVersion = <<>>
    /\ loaded = <<>> /\ calls = 0
ScanIdle ==
    /\ packageMap = <<>> /\ sdiags = <<>> /\ pc = "idle"
    /\ tmpl = [packages |-> <<>>, nodes |-> <<>>]
    /\ packages = <<>> /\ packages2 = <<>>

InitPkg ==
    /\ pkg \in { p \in LoadedPackages :
                   /\ DOMAIN p.resources \cap p.resErrs = {}
                   /\ DOMAIN p.functions \cap p.fnErrs = {} }
    /\ op = "none" /\ arg = NoToken /\ ret = Missing /\ comp = NoComp
    /\ TopIdle /\ ScanIdle

\* The package is immutable and every operation on it is a pure function of the
\* package and the token, so a session is one resolution on a freshly loaded
\* package, followed at most by the IsComponent question about its result.
CallResolveToken ==
    /\ op = "none"
    /\ \E typeName \in UserTokens :
        /\ op' = "resolveToken"
        /\ arg' = typeName
        /\ ret' = resolveToken(typeName, Resources(pkg))
        /\ comp' = NoComp
        /\ UNCHANGED <<pkg, topVars, scanVars>>

CallResolveResource ==
    /\ op = "none"
    /\ \E typeName \in UserTokens :
        /\ op' = "ResolveResource"
        /\ arg' = typeName
        /\ ret' = resourcePackage_ResolveResource(pkg, typeName)
        /\ comp' = NoComp
        /\ UNCHANGED <<pkg, topVars, scanVars>>

CallResolveFunction ==
    /\ op = "none"
    /\ \E typeName \in UserTokens :
        /\ op' = "ResolveFunction"
        /\ arg' = typeName
        /\ ret' = resourcePackage_ResolveFunction(pkg, typeName)
        /\ comp' = NoComp
        /\ UNCHANGED <<pkg, topVars, scanVars>>

\* The caller asks IsComponent about the resource token it was just given.
CallIsComponent ==
    /\ op = "ResolveResource"
    /\ ret.err = NoErr
    /\ op' = "IsComponent"
    /\ comp' = resourcePackage_IsComponent(pkg, ret.token)
    /\ UNCHANGED <<pkg, arg, ret, topVars, scanVars>>

NextPkg ==
    \/ CallResolveToken
    \/ CallResolveResource
    \/ CallResolveFunction
    \/ CallIsComponent

SpecPkg == InitPkg /\ [][NextPkg]_vars

----------------------------------------------------------------------------
(* Top-level resolution: the compatibility gate, loadPackage and the loader *)

ErrSchema == "error loading schema"
ErrInternal == "internal error loading package"
ErrUnsupported == "The resource type is not supported in YAML at this time"
ErrHelm == "Helm Chart resources are not supported in YAML"
ErrDocker == "Docker Image resources are not supported in YAML without major version >= 4"
\* contract.Assertf failed: the call panics instead of returning.
PanicAssert == "panic: make sure we have not requested an appropriately versioned package"

\* A *semver.Version is <<>> (nil) or <<major>>.
NilVersion == <<>>
Major(v) == v[1]

Docker3Major == 3

docker3ResourceNames == { <<sDocker, sImageMod, sImage>>, <<sDocker, sImage>> }

kubernetesResourceNamesNoGroup ==
    { <<sKubernetes, sKustomize, sDirectory>>, <<sKubernetes, sYaml, sConfigFile>> }
kubernetesResourceNames ==
    { <<sKubernetes, sKustomize, sDirectory>>,
      <<sKubernetes, sYaml, sConfigFile>>,
      <<sKubernetes, sYaml, sConfigGroup>> }

helmResourceNames ==
    { <<sKubernetes, sHelmV2, sChart>>, <<sKubernetes, sHelmV3, sChart>> }

ResolvePkgName(typeString) ==
    LET typeParts == typeString
    IN  IF Len(typeParts) = 3 /\ typeParts[1] = sPulumi /\ typeParts[2] = sProviders
           THEN typeParts[3]
        ELSE typeParts[1]

\* What loader.LoadPackage may answer for a descriptor: a failure that is
\* schema.ErrGetSchemaNotImplemented, any other failure, or a package. The loader
\* is an interface: the package it hands back reports whatever version it has,
\* none included, and holds whatever tables it has.
LoaderTables ==
    { {}, {<<sDocker, sImageMod, sImage>>}, {Legacy(<<sDocker, sIndex, sImage>>)} }

LoaderVersions == { NilVersion, <<Docker3Major>>, <<Docker3Major + 1>> }

\* The loader's behaviour on one call.
LoaderAnswers ==
    { [err |-> e, version |-> NilVersion, table |-> {}] : e \in {ErrSchema, ErrInternal} }
        \cup { [err |-> NoErr, version |-> v, table |-> t] :
                 v \in LoaderVersions, t \in LoaderTables }

\* loader.LoadPackage(ctx, descriptor)
LoadPackage(answer, descriptor) ==
    IF answer.err # NoErr THEN [pkg |-> NoPackage, err |-> answer.err]
    ELSE [pkg |-> [name |-> descriptor.Name, version |-> answer.version,
                   resources |-> EntriesOf(answer.table), resErrs |-> {},
                   functions |-> EntriesOf(answer.table), fnErrs |-> {}],
          err |-> NoErr]

\* The descriptor found in the map is the map's own object (the map holds
\* pointers): writing its Version writes the caller's map.
OverrideInPlace(descs, packageName, descriptor) ==
    IF packageName \in DOMAIN descs THEN [descs EXCEPT ![packageName] = descriptor]
    ELSE descs

loadPackage(answer, descs, typeString, version) ==
    LET typeParts == typeString
        packageName == ResolvePkgName(typeString)
        found == IF packageName \in DOMAIN descs THEN descs[packageName]
                 ELSE [Name |-> packageName, Version |-> version]
        descriptor == IF version # NilVersion THEN [found EXCEPT !.Version = version]
                      ELSE found
        out == LoadPackage(answer, descriptor)
    IN  IF Len(typeParts) < 2 \/ Len(typeParts) > 3
           THEN [pkg |-> NoPackage, err |-> ErrInvalid, descriptors |-> descs,
                 loaded |-> <<>>]
        ELSE [pkg |-> out.pkg, err |-> out.err,
              descriptors |-> OverrideInPlace(descs, packageName, descriptor),
              loaded |-> <<[descriptor |-> descriptor, result |-> out]>>]

Rejected(e, descs) ==
    [pkg |-> NoPackage, token |-> NoToken, err |-> e, descriptors |-> descs,
     loaded |-> <<>>]

ResolveResource(answer, descs, typeString, version) ==
    LET l == loadPackage(answer, descs, typeString, version)
        v == l.pkg.version
        canonicalName == resourcePackage_ResolveResource(l.pkg, typeString)
        fail(e) == [pkg |-> NoPackage, token |-> NoToken, err |-> e,
                    descriptors |-> l.descriptors, loaded |-> l.loaded]
    IN  IF typeString \in kubernetesResourceNames THEN Rejected(ErrUnsupported, descs)
        ELSE IF typeString \in helmResourceNames THEN Rejected(ErrHelm, descs)
        ELSE IF l.err # NoErr THEN fail(l.err)
        ELSE IF /\ typeString \in docker3ResourceNames
                /\ (v = NilVersion \/ Major(v) <= Docker3Major)
           THEN IF version = NilVersion \/ Major(version) <= Docker3Major
                   THEN fail(ErrDocker)
                ELSE fail(PanicAssert)
        ELSE IF canonicalName.err # NoErr THEN fail(canonicalName.err)
        ELSE [pkg |-> l.pkg, token |-> canonicalName.token, err |-> NoErr,
              descriptors |-> l.descriptors, loaded |-> l.loaded]

ResolveFunction(answer, descs, typeString, version) ==
    LET l == loadPackage(answer, descs, typeString, version)
        canonicalName == resourcePackage_ResolveFunction(l.pkg, typeString)
        fail(e) == [pkg |-> NoPackage, token |-> NoToken, err |-> e,
                    descriptors |-> l.descriptors, loaded |-> l.loaded]
    IN  IF l.err # NoErr THEN fail(l.err)
        ELSE IF canonicalName.err # NoErr THEN fail(canonicalName.err)
        ELSE [pkg |-> l.pkg, token |-> canonicalName.token, err |-> NoErr,
              descriptors |-> l.descriptors, loaded |-> l.loaded]

MaxCalls == 2

DescriptorKeys == {sDocker, sKubernetes}

DescriptorMaps ==
    UNION { [keys -> LoaderVersions] : keys \in SUBSET DescriptorKeys }

\* The type strings callers pass: the tokens the gate knows and others.
TopTokens ==
    { <<sDocker, sImageMod, sImage>>, <<sDocker, sImage>>,
      <<sKubernetes, sKustomize, sDirectory>>, <<sKubernetes, sYaml, sConfigFile>>,
      <<sKubernetes, sYaml, sConfigGroup>>,
      <<sKubernetes, sHelmV2, sChart>>, <<sKubernetes, sHelmV3, sChart>>,
      <<sAws, sS3, sBucket>>, <<sDocker>>, <<sDocker, sIndex, sImage>> }

FacadeIdle ==
    /\ pkg = NoPackage /\ op = "none" /\ arg = NoToken /\ ret = Missing
    /\ comp = NoComp

\* The caller's descriptor map binds each package it names to a descriptor of
\* that name, at some version or none.
InitTop ==
    /\ \E m \in DescriptorMaps :
           descriptors = [k \in DOMAIN m |-> [Name |-> k, Version |-> m[k]]]
    /\ descriptors0 = descriptors
    /\ argVersion = NilVersion
    /\ loaded = <<>>
    /\ calls = 0
    /\ FacadeIdle /\ ScanIdle

TopResolveResource ==
    /\ op = "none"
    /\ calls < MaxCalls
    /\ \E typeString \in TopTokens, version \in LoaderVersions, answer \in LoaderAnswers :
        \E r \in {ResolveResource(answer, descriptors, typeString, version)} :
            /\ op' = "ResolveResource"
            /\ arg' = typeString
            /\ argVersion' = version
            /\ pkg' = r.pkg
            /\ ret' = [token |-> r.token, found |-> r.err = NoErr, err |-> r.err]
            /\ descriptors' = r.descriptors
            /\ loaded' = r.loaded
            /\ calls' = calls + 1
            /\ UNCHANGED <<comp, descriptors0, scanVars>>

TopResolveFunction ==
    /\ op = "none"
    /\ calls < MaxCalls
    /\ \E typeString \in TopTokens, version \in LoaderVersions, answer \in LoaderAnswers :
        \E r \in {ResolveFunction(answer, descriptors, typeString, version)} :
            /\ op' = "ResolveFunction"
            /\ arg' = typeString
            /\ argVersion' = version
            /\ pkg' = r.pkg
            /\ ret' = [token |-> r.token, found |-> r.err = NoErr, err |-> r.err]
            /\ descriptors' = r.descriptors
            /\ loaded' = r.loaded
            /\ calls' = calls + 1
            /\ UNCHANGED <<comp, descriptors0, scanVars>>

\* The call has returned (or panicked) and the caller goes on with the same
\* descriptor map.
TopReturn ==
    /\ op \in {"ResolveResource", "ResolveFunction"}
    /\ op' = "none" /\ arg' = NoToken /\ argVersion' = NilVersion
    /\ pkg' = NoPackage /\ ret' = Missing /\ loaded' = <<>>
    /\ UNCHANGED <<comp, descriptors, descriptors0, calls, scanVars>>

NextTop ==
    \/ TopResolveResource
    \/ TopResolveFunction
    \/ TopReturn

SpecTop == InitTop /\ [][NextTop]_vars

----------------------------------------------------------------------------
(* GetReferencedPackages: the reference scanner *)

sBase == <<"b", "a", "s", "e">>
sStackReference ==
    <<"S", "t", "a", "c", "k", "R", "e", "f", "e", "r", "e", "n", "c", "e">>
sV600 == <<"6", ".", "0", ".", "0">>
sV610 == <<"6", ".", "1", ".", "0">>
sUrlA == <<"a", ".", "i", "o">>
sUrlB == <<"b", ".", "i", "o">>
Empty == <<>>

\* A *Parameterization is <<>> (nil) or <<[Name, Version]>>.
NoParameterization == <<>>
Parameterized(n, v) == <<[Name |-> n, Version |-> v]>>

PackageDecl(n, v, url, par) ==
    [Name |-> n, Version |-> v, DownloadURL |-> url, Parameterization |-> par]

\* The name a declaration of the packages section is filed under.
effectiveNameOuter(decl) == decl.Name
effectiveName(decl) ==
    IF decl.Parameterization # NoParameterization THEN decl.Parameterization[1].Name
    ELSE decl.Name

effectiveVersion(decl) ==
    IF decl.Parameterization # NoParameterization
       THEN decl.Parameterization[1].Version
    ELSE decl.Version

Put(m, k, e) == [x \in DOMAIN m \cup {k} |-> IF x = k THEN e ELSE m[x]]

\* One iteration of the loop over tmpl.Packages.
seedPackage(m, decl) ==
    LET name == effectiveName(decl)
        version == effectiveVersion(decl)
    IN  IF name \in DOMAIN m
           THEN LET entry == m[name]
                    e1 == IF entry.Version = Empty
                             THEN [entry EXCEPT !.Version = version]
                          ELSE entry
                    e2 == IF e1.DownloadURL = Empty
                             THEN [e1 EXCEPT !.DownloadURL = decl.DownloadURL]
                          ELSE e1
                IN  Put(m, name, e2)
        ELSE Put(m, name, decl)

VersionDiag(n, at) == [kind |-> "conflicting version", pkg |-> n, node |-> at]
UrlDiag(n, at) == [kind |-> "conflicting plugin download URL", pkg |-> n, node |-> at]
NoTypeDiag(at) == [kind |-> "Resource declared without a 'type'", pkg |-> Empty, node |-> at]
NoFunctionDiag(at) ==
    [kind |-> "Invoke declared without a 'function' type", pkg |-> Empty, node |-> at]

\* The version an entry holds after a reference that asks for version v.
versionAfterLastWins(entry, v) == IF v # Empty THEN v ELSE entry.Version
versionAfter(entry, v) ==
    IF v # Empty /\ entry.Version # v /\ entry.Version = Empty THEN v
    ELSE entry.Version

urlAfter(entry, url) ==
    IF url # Empty /\ entry.DownloadURL # url /\ entry.DownloadURL = Empty THEN url
    ELSE entry.DownloadURL

\* acceptType on the node at position `at` of the walk: the map and the
\* diagnostics after it.
acceptType(m, diags, typeName, version, pluginDownloadURL, at) ==
    LET name == ResolvePkgName(typeName)
    IN  IF name \in DOMAIN m
           THEN LET entry == m[name]
                    dv == IF /\ version # Empty /\ entry.Version # version
                             /\ entry.Version # Empty
                             THEN <<VersionDiag(name, at)>>
                          ELSE <<>>
                    du == IF /\ pluginDownloadURL # Empty
                             /\ entry.DownloadURL # pluginDownloadURL
                             /\ entry.DownloadURL # Empty
                             THEN <<UrlDiag(name, at)>>
                          ELSE <<>>
                IN  [packageMap |->
                        Put(m, name,
                            [entry EXCEPT
                                !.Version = versionAfter(entry, version),
                                !.DownloadURL = urlAfter(entry, pluginDownloadURL)]),
                     sdiags |-> diags \o dv \o du]
        ELSE [packageMap |->
                 Put(m, name, PackageDecl(name, version, pluginDownloadURL,
                                          NoParameterization)),
              sdiags |-> diags]

\* syntax.Diagnostics.HasErrors on what the walk returned: every diagnostic the
\* scanner emits is an error.
HasErrors(diags) == diags # <<>>

lessNoParameterization(pI, pJ) ==
    IF pI.Name # pJ.Name THEN StrLess(pI.Name, pJ.Name)
    ELSE IF pI.Version # pJ.Version THEN StrLess(pI.Version, pJ.Version)
    ELSE StrLess(pI.DownloadURL, pJ.DownloadURL)
\* The comparator handed to sort.Slice.
less(pI, pJ) ==
    IF pI.Name # pJ.Name THEN StrLess(pI.Name, pJ.Name)
    ELSE IF pI.Version # pJ.Version THEN StrLess(pI.Version, pJ.Version)
    ELSE IF /\ pI.Parameterization = NoParameterization
            /\ pJ.Parameterization = NoParameterization
       THEN StrLess(pI.DownloadURL, pJ.DownloadURL)
    ELSE IF pI.Parameterization = NoParameterization THEN TRUE
    ELSE IF pJ.Parameterization = NoParameterization THEN FALSE
    ELSE IF pI.Parameterization[1].Name # pJ.Parameterization[1].Name
       THEN StrLess(pI.Parameterization[1].Name, pJ.Parameterization[1].Name)
    ELSE StrLess(pI.Parameterization[1].Version, pJ.Parameterization[1].Version)

\* The lists the final loop and sort.Slice can produce from the map: the entries
\* other than the built-in package, appended in any order (map iteration), then
\* put by an unstable sort into an order with no pair out of place.
SortedLists(m) ==
    LET keys == { k \in DOMAIN m : m[k].Name # sPulumi }
        n == Cardinality(keys)
        orders == { o \in [1..n -> keys] : \A i, j \in 1..n : i # j => o[i] # o[j] }
    IN  { [i \in 1..n |-> m[o[i]]] :
            o \in { x \in orders :
                      \A i, j \in 1..n : i < j => ~less(m[x[j]], m[x[i]]) } }

MaxPackages == 2
MaxNodes == 2

\* Declarations of a template's packages section.
PackageDecls ==
    { PackageDecl(sAws, sV600, sUrlA, NoParameterization),
      PackageDecl(sBase, Empty, Empty, Parameterized(sAws, sV610)),
      PackageDecl(sBase, Empty, Empty, Parameterized(sGcp, sV600)),
      PackageDecl(sBase, Empty, sUrlB, NoParameterization),
      PackageDecl(sPulumi, Empty, Empty, NoParameterization) }

\* Nodes of a template: resources (res.Type, res.Options) and invokes
\* (expr.Token, expr.CallOpts); a nil type or token is <<>>.
Node(kind, type, v, url) ==
    [kind |-> kind, type |-> type, version |-> v, url |-> url]

ResourceNodes ==
    { Node("resource", <<<<sAws, sS3, sBucket>>>>, sV600, Empty),
      Node("resource", <<<<sAws, sEc2, sInstance>>>>, sV610, sUrlA),
      Node("resource", <<<<sPulumi, sProviders, sGcp>>>>, Empty, sUrlB),
      Node("resource", <<<<sPulumi, sPulumi, sStackReference>>>>, Empty, Empty),
      Node("resource", <<>>, Empty, Empty) }

InvokeNodes ==
    { Node("invoke", <<<<sAws, sIndex, sGetAmi>>>>, Empty, sUrlB),
      Node("invoke", <<>>, Empty, Empty) }

NoTemplate == [packages |-> <<>>, nodes |-> <<>>]

InitScan ==
    /\ packageMap = <<>>
    /\ sdiags = <<>>
    /\ pc = "packages"
    /\ tmpl = NoTemplate
    /\ packages = <<>>
    /\ packages2 = <<>>
    /\ FacadeIdle /\ TopIdle

\* for _, pkg := range tmpl.Packages
SeedPackage ==
    /\ pc = "packages"
    /\ Len(tmpl.packages) < MaxPackages
    /\ \E decl \in PackageDecls :
        /\ packageMap' = seedPackage(packageMap, decl)
        /\ tmpl' = [tmpl EXCEPT !.packages = Append(@, decl)]
    /\ UNCHANGED <<sdiags, pc, packages, packages2, facadeVars, topVars>>

\* walker.VisitResource
VisitResource ==
    /\ pc \in {"packages", "walk"}
    /\ Len(tmpl.nodes) < MaxNodes
    /\ \E node \in ResourceNodes :
        /\ \E r \in { IF node.type = <<>>
                         THEN [packageMap |-> packageMap,
                               sdiags |-> Append(sdiags, NoTypeDiag(Len(tmpl.nodes) + 1))]
                      ELSE acceptType(packageMap, sdiags, node.type[1], node.version,
                                      node.url, Len(tmpl.nodes) + 1) } :
              /\ packageMap' = r.packageMap
              /\ sdiags' = r.sdiags
        /\ tmpl' = [tmpl EXCEPT !.nodes = Append(@, node)]
    /\ pc' = "walk"
    /\ UNCHANGED <<packages, packages2, facadeVars, topVars>>

\* walker.VisitExpr on an *ast.InvokeExpr
VisitExpr ==
    /\ pc \in {"packages", "walk"}
    /\ Len(tmpl.nodes) < MaxNodes
    /\ \E node \in InvokeNodes :
        /\ \E r \in { IF node.type = <<>>
                         THEN [packageMap |-> packageMap,
                               sdiags |-> Append(sdiags,
                                                 NoFunctionDiag(Len(tmpl.nodes) + 1))]
                      ELSE acceptType(packageMap, sdiags, node.type[1], node.version,
                                      node.url, Len(tmpl.nodes) + 1) } :
              /\ packageMap' = r.packageMap
              /\ sdiags' = r.sdiags
        /\ tmpl' = [tmpl EXCEPT !.nodes = Append(@, node)]
    /\ pc' = "walk"
    /\ UNCHANGED <<packages, packages2, facadeVars, topVars>>

\* The walk is over: the list is built, sorted and returned. A second scan of the
\* same template builds the same map and returns packages2.
Return ==
    /\ pc \in {"packages", "walk"}
    /\ pc' = "done"
    /\ IF HasErrors(sdiags)
          THEN packages' = <<>> /\ packages2' = <<>>
       ELSE /\ packages' \in SortedLists(packageMap)
            /\ packages2' \in SortedLists(packageMap)
    /\ UNCHANGED <<packageMap, sdiags, tmpl, facadeVars, topVars>>

NextScan ==
    \/ SeedPackage
    \/ VisitResource
    \/ VisitExpr
    \/ Return

SpecScan == InitScan /\ [][NextScan]_vars

----------------------------------------------------------------------------
(* Claims about the token canonicalizer and the facade (under SpecPkg) *)

\* The candidates of the specification's algorithm, in its order.
Candidates(t) ==
    IF Len(t) = 2
       THEN << t,
               <<t[1], sIndex, t[2]>>,
               <<t[1], Slash(sIndex, ToLowerCamel(t[2])), t[2]>> >>
    ELSE << t, <<t[1], Slash(t[2], ToLowerCamel(t[3])), t[3]>> >>

\* The outcome of asking the table for each candidate in turn: the first one found,
\* or the first failure met before any is found.
RECURSIVE FirstHit(_, _)
FirstHit(cands, table) ==
    IF cands = <<>> THEN Missing
    ELSE IF Head(cands) \in DOMAIN table.entries
       THEN Found(table.entries[Head(cands)].Token)
    ELSE IF Head(cands) \in table.errs THEN Failed(ErrLookup)
    ELSE FirstHit(Tail(cands), table)

\* C1: for a token of 2 or 3 segments resolveToken returns the result of the first
\* candidate the lookup finds, in the order (1) the token as given, (2) A:index:B for
\* a two-segment A:B, (3) A:B/c:C with c the lower-camel-cased C (also for the
\* A:index:B made in step 2); not-found when none is found; a lookup error stops the
\* search and is returned. In particular A:index:B returns itself when it is in the
\* table, and A:B returns A:index:B when only A:index:B is in the table.
C1_CandidateOrder ==
    (op = "resolveToken" /\ Len(arg) \in {2, 3}) =>
        /\ ret = FirstHit(Candidates(arg), Resources(pkg))
        /\ (Len(arg) = 3 /\ arg[2] = sIndex /\ arg \in DOMAIN pkg.resources)
               => ret = Found(arg)
        /\ (/\ Len(arg) = 2
            /\ arg \notin DOMAIN pkg.resources
            /\ arg \notin pkg.resErrs
            /\ <<arg[1], sIndex, arg[2]>> \in DOMAIN pkg.resources)
               => ret = Found(<<arg[1], sIndex, arg[2]>>)

\* A two-segment token found under the legacy form of its index form.
C1_Witness ==
    /\ op = "resolveToken"
    /\ arg = <<sAws, sBucket>>
    /\ ret = Found(<<sAws, Slash(sIndex, <<"b", "u", "c", "k", "e", "t">>), sBucket>>)

\* The provider token of this package: pulumi:providers:<name>.
IsOwnProviderToken(p, t) ==
    Len(t) = 3 /\ t[1] = sPulumi /\ t[2] = sProviders /\ t[3] = p.name

\* C2 as stated: for every resource whose canonical token is a:b/c:C with
\* c = lowerCamel(C), ResolveResource("a:b:C") returns a:b/c:C, whatever else the
\* resource table holds (here already for the tables none of whose lookups fails
\* and the tokens that are not the package's provider token).
C2_LegacyRewriteAlways ==
    (/\ op = "ResolveResource"
     /\ Len(arg) = 3
     /\ pkg.resErrs = {}
     /\ ~IsOwnProviderToken(pkg, arg)
     /\ Legacy(arg) \in DOMAIN pkg.resources)
        => ret = Found(Legacy(arg))

\* C2 as amended: ... returns a:b/c:C provided the literal a:b:C is not itself found
\* in the resource table, its lookup does not fail, and a:b:C is not the provider
\* token of the package.
C2_LegacyRewrite ==
    (/\ op = "ResolveResource"
     /\ Len(arg) = 3
     /\ Legacy(arg) \in DOMAIN pkg.resources
     /\ arg \notin DOMAIN pkg.resources
     /\ arg \notin pkg.resErrs
     /\ ~IsOwnProviderToken(pkg, arg))
        => ret = Found(Legacy(arg))

\* aws:s3:Bucket resolved to aws:s3/bucket:Bucket in a table that holds more.
C2_Witness ==
    /\ op = "ResolveResource"
    /\ arg = <<sAws, sS3, sBucket>>
    /\ ret = Found(<<sAws, Slash(sS3, <<"b", "u", "c", "k", "e", "t">>), sBucket>>)
    /\ Cardinality(DOMAIN pkg.resources) = MaxTable

\* C3: a token that ResolveResource (ResolveFunction) returns without error is a key
\* of the package's resource (function) table, so IsComponent on the returned
\* resource token does not fail with "unable to find resource type"; provider
\* tokens pulumi:providers:<package name> included.
C3_ReturnedTokenInTable ==
    /\ (op \in {"ResolveResource", "IsComponent"} /\ ret.err = NoErr)
           => ret.token \in DOMAIN pkg.resources
    /\ (op = "ResolveFunction" /\ ret.err = NoErr)
           => ret.token \in DOMAIN pkg.functions
    /\ op = "IsComponent" => comp.err # ErrNoResource

\* IsComponent was asked about the provider token the facade returned.
C3_Witness ==
    /\ op = "IsComponent"
    /\ arg = <<sPulumi, sProviders, sAws>>
    /\ ret.token = arg

----------------------------------------------------------------------------
(* Claims about top-level resolution (under SpecTop) *)

TopCalled == op \in {"ResolveResource", "ResolveFunction"}

\* C6: the descriptor map passed to loadPackage / ResolveResource / ResolveFunction
\* is read-only: after any sequence of calls with nil and non-nil version overrides
\* every descriptor of the map has the name and version it had before the first
\* call, so a call with a nil override loads the package at the version the map
\* originally bound.
C6_DescriptorsReadOnly ==
    /\ descriptors = descriptors0
    /\ (/\ TopCalled
        /\ argVersion = NilVersion
        /\ loaded # <<>>
        /\ ResolvePkgName(arg) \in DOMAIN descriptors0)
           => loaded[1].descriptor = descriptors0[ResolvePkgName(arg)]

\* A call with a version override for a package the map binds.
C6_Witness ==
    /\ TopCalled
    /\ argVersion # NilVersion
    /\ loaded # <<>>
    /\ ResolvePkgName(arg) \in DOMAIN descriptors0

\* C7: for every token of kubernetesResourceNames or helmResourceNames the
\* top-level ResolveResource returns an error and never calls the loader's
\* LoadPackage, whatever the loader, the descriptor map and the version override.
C7_RejectedBeforeLoad ==
    (/\ op = "ResolveResource"
     /\ arg \in { <<sKubernetes, sKustomize, sDirectory>>,
                  <<sKubernetes, sYaml, sConfigFile>>,
                  <<sKubernetes, sYaml, sConfigGroup>>,
                  <<sKubernetes, sHelmV2, sChart>>,
                  <<sKubernetes, sHelmV3, sChart>> })
        => /\ ret.err \in {ErrUnsupported, ErrHelm}
           /\ loaded = <<>>
           /\ pkg = NoPackage

\* The Helm v3 chart rejected with a descriptor for kubernetes in the map and a
\* version override given.
C7_Witness ==
    /\ op = "ResolveResource"
    /\ arg = <<sKubernetes, sHelmV3, sChart>>
    /\ ret.err = ErrHelm
    /\ sKubernetes \in DOMAIN descriptors
    /\ argVersion # NilVersion

DockerLoaded ==
    /\ op = "ResolveResource"
    /\ arg \in { <<sDocker, sImageMod, sImage>>, <<sDocker, sImage>> }
    /\ loaded # <<>>
    /\ loaded[1].result.err = NoErr

\* C8: for docker:image:Image and docker:Image the top-level ResolveResource returns
\* the Docker minimum-major-version error whenever the package the loader returned
\* reports a major version <= 3 or no version, and whenever it reports a major
\* version >= 4 the result is exactly that of the package's own ResolveResource.
C8_DockerGate ==
    DockerLoaded =>
        LET p == loaded[1].result.pkg
            own == resourcePackage_ResolveResource(p, arg)
        IN  IF p.version = NilVersion \/ Major(p.version) <= 3
               THEN ret.err = ErrDocker
            ELSE /\ ret.err = own.err
                 /\ ret.token = own.token
                 /\ (own.err = NoErr => pkg = p)

\* The loader returned a Docker package of major version 3 or of no version.
C8_Witness ==
    /\ DockerLoaded
    /\ loaded[1].result.pkg.version \in {NilVersion, <<3>>}

\* C9: the gate's assertion holds in every reachable state: whenever the top-level
\* ResolveResource on a version-conditional Docker token reaches the rejection
\* branch (the loaded package reports no version or a major version <= 3), the
\* version override is nil or has major version <= 3.
C9_AssertionHolds ==
    (/\ DockerLoaded
     /\ \/ loaded[1].result.pkg.version = NilVersion
        \/ Major(loaded[1].result.pkg.version) <= 3)
        => /\ (argVersion = NilVersion \/ Major(argVersion) <= 3)
           /\ ret.err # PanicAssert

\* The rejection branch reached with a version override of major version 4.
C9_Witness ==
    /\ DockerLoaded
    /\ loaded[1].result.pkg.version = NilVersion
    /\ argVersion = <<4>>

----------------------------------------------------------------------------
(* Claims about the reference scanner (under SpecScan) *)

VersionDiags == SelectSeq(sdiags, LAMBDA d : d.kind = "conflicting version")

DeclaresPackage(decl, n) ==
    \/ decl.Name = n
    \/ (decl.Parameterization # NoParameterization /\ decl.Parameterization[1].Name = n)

\* The scan is over a template whose only nodes are two resources of one package
\* at different non-empty versions, and whose packages section does not declare
\* that package.
TwoConflictingResources ==
    /\ pc = "done"
    /\ Len(tmpl.nodes) = 2
    /\ \A i \in 1..2 :
          /\ tmpl.nodes[i].kind = "resource"
          /\ tmpl.nodes[i].type # <<>>
          /\ tmpl.nodes[i].version # Empty
    /\ ResolvePkgName(tmpl.nodes[1].type[1]) = ResolvePkgName(tmpl.nodes[2].type[1])
    /\ tmpl.nodes[1].version # tmpl.nodes[2].version
    /\ \A i \in 1..Len(tmpl.packages) :
          ~DeclaresPackage(tmpl.packages[i], ResolvePkgName(tmpl.nodes[1].type[1]))

OneDiagOnSecond(n) ==
    /\ Len(VersionDiags) = 1
    /\ VersionDiags[1].node = 2
    /\ VersionDiags[1].pkg = n

\* C4 as stated: when two resources reference the same package with different
\* non-empty versions, exactly one conflicting-version diagnostic is emitted, on the
\* second resource, and the returned list holds a single entry for that package,
\* carrying the first-seen version.
C4_ConflictKeepsFirstInList ==
    TwoConflictingResources =>
        LET n == ResolvePkgName(tmpl.nodes[1].type[1])
            at == { i \in 1..Len(packages) : packages[i].Name = n }
        IN  /\ OneDiagOnSecond(n)
            /\ Cardinality(at) = 1
            /\ \A i \in at : packages[i].Version = tmpl.nodes[1].version

\* C4 as amended: ... exactly one conflicting-version diagnostic is emitted, on the
\* second resource, and the scanner's package map holds a single entry for that
\* package, carrying the first-seen version; the diagnostic being an error, the
\* returned list is empty.
C4_ConflictKeepsFirstInMap ==
    TwoConflictingResources =>
        LET n == ResolvePkgName(tmpl.nodes[1].type[1])
        IN  /\ OneDiagOnSecond(n)
            /\ Cardinality({ k \in DOMAIN packageMap : packageMap[k].Name = n }) = 1
            /\ n \in DOMAIN packageMap
            /\ packageMap[n].Version = tmpl.nodes[1].version
            /\ packages = <<>>

\* aws:s3:Bucket at 6.0.0, then aws:ec2:Instance at 6.1.0.
C4_Witness ==
    /\ TwoConflictingResources
    /\ tmpl.nodes[1].type[1] = <<sAws, sS3, sBucket>>
    /\ tmpl.nodes[2].type[1] = <<sAws, sEc2, sInstance>>

\* C5 as stated: the list GetReferencedPackages returns holds no two entries with
\* the same Name field.
C5_UniqueNameField ==
    pc = "done" =>
        \A i, j \in 1..Len(packages) :
            i # j => packages[i].Name # packages[j].Name

ListedName(e) ==
    IF e.Parameterization = NoParameterization THEN e.Name
    ELSE e.Parameterization[1].Name

\* C5 as amended: the list GetReferencedPackages returns holds no two entries with
\* the same effective name (the parameterization's name when the entry has a
\* parameterization, its Name field otherwise).
C5_UniqueEffectiveName ==
    pc = "done" =>
        \A i, j \in 1..Len(packages) :
            i # j => ListedName(packages[i]) # ListedName(packages[j])

\* Two parameterizations of one base package are both listed.
C5_Witness ==
    /\ pc = "done"
    /\ Len(packages) = 2
    /\ packages[1].Name = sBase
    /\ packages[2].Name = sBase

\* C10: two scans of the same template return identical lists, whatever the
\* iteration order of the package map and the unstable sort do: the comparator
\* strictly orders every two distinct entries of one scan's output.
C10_Deterministic ==
    pc = "done" =>
        /\ packages = packages2
        /\ \A i, j \in 1..Len(packages) :
              i # j => (less(packages[i], packages[j]) \/ less(packages[j], packages[i]))

\* Two listed entries that agree on Name and Version and are ordered by their
\* parameterizations.
C10_Witness ==
    /\ pc = "done"
    /\ Len(packages) = 2
    /\ packages[1].Name = packages[2].Name
    /\ packages[1].Version = packages[2].Version
    /\ packages[1] # packages[2]

====
